---------------------------- MODULE Spec2Model ----------------------------
(***************************************************************************)
(* Model of iplc-sim.c: a trace-driven simulator of a five-stage pipeline  *)
(* backed by a set-associative cache with LRU replacement.                 *)
(*                                                                         *)
(* The program's globals are the variables.  A cache line pointer is the   *)
(* index of the way it points to inside its set (NULL is NONE).  Every     *)
(* call of iplc_sim_push_pipeline_stage is one step; the position inside   *)
(* main / iplc_sim_parse_instruction / iplc_sim_finalize is pc.            *)
(***************************************************************************)
EXTENDS Integers, Sequences, FiniteSets, TLC

\* ---------------------------------------------------------------- constants
MAX_CACHE_SIZE == 10240
CACHE_MISS_DELAY == 10
MAX_STAGES == 5

FETCH == 0
DECODE == 1
ALU == 2
MEM == 3
WRITEBACK == 4

\* NULL of a cache_line_t pointer, and the assoc_entry of a capacity miss
NONE == -1

\* The counters and addresses are unsigned int (long for the cache
\* statistics); every value a run of this model reaches is far below 2^31, so
\* the arithmetic is written without the reduction modulo 2^32.

\* ------------------------------------------------------------------- bounds
\* longest trace file of the general inputs
MaxTrace == 2
\* most probes of the cache-only runs
MaxProbes == 5

VARIABLES
    \* configuration globals set by iplc_sim_init / main
    cache_index, cache_blocksize, cache_blockoffsetbits, cache_assoc,
    branch_predict_taken,
    \* the cache and its statistics
    cache, cache_access, cache_hit, cache_miss,
    \* the pipeline and its statistics
    pipeline, pipeline_cycles, instruction_count, branch_count,
    correct_branch_predictions,
    \* globals of the parser, and the locals i, j of its stall loop
    instruction, instruction_address, data_address, i, j,
    \* position in main: "parse" | "stall" | "process" | "finalize" | "done" | "exit"
    pc,
    \* the trace file and the number of lines consumed
    trace, pos,
    \* history (not program state): one record per call of
    \* iplc_sim_trap_address; calls of iplc_sim_push_pipeline_stage; what
    \* the last such call did; iterations of finalize's loop; the result
    \* of the fetch probe of each line
    probes, advances, last, drained, fetch_log

vars == <<cache_index, cache_blocksize, cache_blockoffsetbits, cache_assoc,
          branch_predict_taken, cache, cache_access, cache_hit, cache_miss,
          pipeline, pipeline_cycles, instruction_count, branch_count,
          correct_branch_predictions, instruction, instruction_address,
          data_address, i, j, pc, trace, pos, probes, advances, last,
          drained, fetch_log>>

config_vars == <<cache_index, cache_blocksize, cache_blockoffsetbits,
                 cache_assoc, branch_predict_taken>>

\* ------------------------------------------------------------ bit operations
RECURSIVE BitAnd(_, _)
BitAnd(a, b) ==
    IF a = 0 \/ b = 0 THEN 0
    ELSE (a % 2) * (b % 2) + 2 * BitAnd(a \div 2, b \div 2)

ShiftLeft(a, n) == a * 2^n
ShiftRight(a, n) == a \div 2^n

\* (int) rint(log(x)/log(2)): the n with 2^(n-1/2) <= x < 2^(n+1/2)
RintLog2(x) ==
    CHOOSE n \in 0..14 : 2^(2*n) <= 2 * x * x /\ x * x < 2^(2*n + 1)

\* ------------------------------------------------------------------- cache
InitLine == [valid |-> 0, tag |-> 0, lru_prev |-> NONE, lru_next |-> NONE]

InitSet(assoc) ==
    [lines |-> [w \in 0..(assoc - 1) |-> InitLine], lru_head |-> 0, lru_tail |-> 0]

InitCache(index, assoc) == [s \in 0..(2^index - 1) |-> InitSet(assoc)]

CacheSize(index, blocksize, assoc) ==
    assoc * 2^index * ((32 * blocksize) + 33 - index - RintLog2(blocksize * 4))

\* a size test on the signed product
TooBig_Signed(index, blocksize, assoc) ==
    CacheSize(index, blocksize, assoc) > MAX_CACHE_SIZE

\* cache_size > MAX_CACHE_SIZE with cache_size an unsigned long: a negative
\* int product converts to a value near 2^64, above MAX_CACHE_SIZE
TooBig(index, blocksize, assoc) ==
    LET cache_size == CacheSize(index, blocksize, assoc)
    IN  cache_size < 0 \/ cache_size > MAX_CACHE_SIZE

\* SpliceAtHead that forgets line->lru_prev = lru_head
SpliceAtHead_NoPrev(set, line) ==
    IF line # set.lru_head
    THEN LET s1 == [set EXCEPT !.lines[set.lru_head].lru_next = line]
             s3 == [s1 EXCEPT !.lines[line].lru_next = NONE]
         IN  [s3 EXCEPT !.lru_head = line]
    ELSE set

\* if(line != lru_head){ ... } : splice line at the MRU end
SpliceAtHead(set, line) ==
    IF line # set.lru_head
    THEN LET s1 == [set EXCEPT !.lines[set.lru_head].lru_next = line]
             s2 == [s1 EXCEPT !.lines[line].lru_prev = s1.lru_head]
             s3 == [s2 EXCEPT !.lines[line].lru_next = NONE]
         IN  [s3 EXCEPT !.lru_head = line]
    ELSE set

\* a miss that forgets line->tag = tag
LRU_replace_on_miss_NoTag(set, assoc_entry, tag) ==
    LET line == IF assoc_entry = NONE THEN set.lru_tail ELSE assoc_entry
    IN  [set EXCEPT !.lines[line].valid = 1]

\* a miss that always fills the line at the LRU end
VictimLine_AlwaysTail(set, assoc_entry) == set.lru_tail

\* the line a miss fills: the LRU end when assoc_entry = -1
VictimLine(set, assoc_entry) ==
    IF assoc_entry = NONE THEN set.lru_tail ELSE assoc_entry

LRU_replace_on_miss(set, assoc_entry, tag) ==
    LET line == VictimLine(set, assoc_entry)
        nxt  == set.lines[line].lru_next
        s1 == IF assoc_entry = NONE /\ nxt # NONE
              THEN LET t == [set EXCEPT !.lru_tail = nxt]
                   IN  [t EXCEPT !.lines[t.lru_tail].lru_prev = NONE]
              ELSE set
        s2 == [s1 EXCEPT !.lines[line].valid = 1]
        s3 == [s2 EXCEPT !.lines[line].tag = tag]
    IN  SpliceAtHead(s3, line)

\* a hit that exchanges the two ends of the recency chain
LRU_update_on_hit_SwapEnds(set, assoc_entry) ==
    [set EXCEPT !.lru_head = set.lru_tail, !.lru_tail = set.lru_head]

\* a hit that leaves the recency chain as it is
LRU_update_on_hit_NoPromote(set, assoc_entry) == set

LRU_update_on_hit(set, assoc_entry) ==
    LET line == assoc_entry
        nxt  == set.lines[line].lru_next
        prv  == set.lines[line].lru_prev
    IN  IF nxt # NONE
        THEN LET s1 == [set EXCEPT !.lines[nxt].lru_prev = prv]
                 s2 == IF prv # NONE
                       THEN [s1 EXCEPT !.lines[prv].lru_next = nxt]
                       ELSE LET t == [s1 EXCEPT !.lru_tail = nxt]
                            IN  [t EXCEPT !.lines[t.lru_tail].lru_prev = NONE]
                 s3 == [s2 EXCEPT !.lines[s2.lru_head].lru_next = line]
                 s4 == [s3 EXCEPT !.lines[line].lru_prev = s3.lru_head]
                 s5 == [s4 EXCEPT !.lines[line].lru_next = NONE]
             IN  [s5 EXCEPT !.lru_head = line]
        ELSE set

\* index = (address & mask) >> cache_blockoffsetbits
TrapIndex(address) ==
    LET mask == ShiftLeft(ShiftLeft(1, cache_index) - 1, cache_blockoffsetbits)
    IN  ShiftRight(BitAnd(address, mask), cache_blockoffsetbits)

\* a tag that keeps the index bits
TrapTag_KeepsIndex(address) == ShiftRight(address, cache_blockoffsetbits)

\* tag = address >> non_tag_bits
TrapTag(address) == ShiftRight(address, cache_blockoffsetbits + cache_index)

\* a scan that never reports a hit
RECURSIVE Scan_NoHit(_, _, _)
Scan_NoHit(set, tag, w) ==
    IF w < cache_assoc
    THEN IF set.lines[w].valid = 1
         THEN Scan_NoHit(set, tag, w + 1)
         ELSE <<"cold", w>>
    ELSE <<"full", NONE>>

\* a scan that steps over an invalid way instead of stopping at it
RECURSIVE Scan_SkipInvalid(_, _, _)
Scan_SkipInvalid(set, tag, w) ==
    IF w < cache_assoc
    THEN IF set.lines[w].valid = 1 /\ set.lines[w].tag = tag
         THEN <<"hit", w>>
         ELSE Scan_SkipInvalid(set, tag, w + 1)
    ELSE <<"full", NONE>>

\* the for loop of iplc_sim_trap_address from way w on:
\* <<"hit", way>>, <<"cold", way>> or <<"full", NONE>>
RECURSIVE Scan(_, _, _)
Scan(set, tag, w) ==
    IF w < cache_assoc
    THEN IF set.lines[w].valid = 1
         THEN IF set.lines[w].tag = tag THEN <<"hit", w>> ELSE Scan(set, tag, w + 1)
         ELSE <<"cold", w>>
    ELSE <<"full", NONE>>

\* what a hit adds to the statistics
HitCount(ret) == ret

\* a miss counted on every probe
MissCount_Always(ret) == 1

\* what a miss adds to the statistics
MissCount(ret) == 1 - ret

\* iplc_sim_trap_address on machine state m: [m |-> the state after, ret |-> 1 hit, 0 miss]
TrapAddress(m, address) ==
    LET index == TrapIndex(address)
        tag   == TrapTag(address)
        set   == m.cache[index]
        found == Scan(set, tag, 0)
        ret   == IF found[1] = "hit" THEN 1 ELSE 0
        set2  == IF found[1] = "hit"
                 THEN LRU_update_on_hit(set, found[2])
                 ELSE LRU_replace_on_miss(set, found[2], tag)
        entry == [address |-> address, index |-> index, tag |-> tag, ret |-> ret,
                  kind |-> found[1], src |-> 0, cycles |-> 0, mispredict |-> FALSE,
                  way |-> IF found[1] = "full" THEN set.lru_tail ELSE found[2],
                  evicted |-> IF found[1] = "full"
                              THEN set.lines[set.lru_tail].tag ELSE NONE]
    IN  [m |-> [m EXCEPT !.cache = [m.cache EXCEPT ![index] = set2],
                         !.cache_access = m.cache_access + 1,
                         !.cache_hit = m.cache_hit + HitCount(ret),
                         !.cache_miss = m.cache_miss + MissCount(ret),
                         !.probes = Append(m.probes, entry)],
         ret |-> ret]

\* ----------------------------------------------------------------- pipeline
\* a stage after bzero; line is the trace line that filled the slot (history)
NopSlot == [itype |-> "NOP", instruction_address |-> 0, data_address |-> 0, line |-> 0]

InitPipeline == [s \in 0..(MAX_STAGES - 1) |-> NopSlot]

\* a retire test on the kind of the slot instead of its address
Retires_ByKind(p) == p[WRITEBACK].itype # "NOP"

\* 1. the WRITEBACK stage retires an instruction
Retires(p) == p[WRITEBACK].instruction_address # 0

\* a branch that is always resolved as taken
BranchTaken_Always(p) == 1

\* branch_taken decided by the addresses alone
BranchTaken_AddressOnly(p) ==
    IF p[FETCH].instruction_address # p[DECODE].instruction_address + 4
    THEN 1 ELSE 0

\* 2. branch_taken of the branch in DECODE
BranchTaken(p) ==
    IF /\ p[FETCH].instruction_address # p[DECODE].instruction_address + 4
       /\ p[FETCH].itype # "NOP"
    THEN 1 ELSE 0

\* a shift that copies DECODE into MEM and loses the ALU slot
Shift_SkipAlu(p) ==
    [s \in 0..(MAX_STAGES - 1) |->
        IF s = FETCH THEN NopSlot ELSE IF s = MEM THEN p[DECODE] ELSE p[s - 1]]

\* a shift without the bzero of FETCH
Shift_NoReset(p) ==
    [s \in 0..(MAX_STAGES - 1) |-> IF s = FETCH THEN p[FETCH] ELSE p[s - 1]]

\* 6. the stages after the shift and the bzero of FETCH
Shift(p) ==
    [s \in 0..(MAX_STAGES - 1) |-> IF s = FETCH THEN NopSlot ELSE p[s - 1]]

\* a call that never charges a mispredict
CycleCount_NoSurcharge(isBranch, mispredict, dataMiss) ==
    IF dataMiss THEN CACHE_MISS_DELAY ELSE 1

\* penalties that add up
CycleCount_Stacked(isBranch, mispredict, dataMiss) ==
    (IF dataMiss THEN CACHE_MISS_DELAY ELSE 1) + (IF isBranch /\ mispredict THEN 1 ELSE 0)

\* cycle_count of one call: data miss, else mispredict, else 1
CycleCount(isBranch, mispredict, dataMiss) ==
    IF dataMiss THEN CACHE_MISS_DELAY
    ELSE IF isBranch /\ mispredict THEN 2 ELSE 1

\* iplc_sim_push_pipeline_stage on machine state m
PushPipelineStage(m) ==
    LET p == m.pipeline
        retire == Retires(p)
        isBranch == p[DECODE].itype = "BRANCH"
        taken == BranchTaken(p)
        m1 == [m EXCEPT
                 !.instruction_count =
                     IF retire THEN @ + 1 ELSE @,
                 !.correct_branch_predictions =
                     IF isBranch /\ taken = branch_predict_taken THEN @ + 1 ELSE @]
        isMem == p[MEM].itype \in {"LW", "SW"}
        t == IF isMem THEN TrapAddress(m1, p[MEM].data_address)
             ELSE [m |-> m1, ret |-> 1]
        cycle_count == CycleCount(isBranch, taken # branch_predict_taken, t.ret = 0)
    IN  [t.m EXCEPT
           \* history: a data probe is marked with the line in MEM and what its call cost
           !.probes = IF isMem
                      THEN [@ EXCEPT ![Len(@)].src = p[MEM].line,
                                     ![Len(@)].cycles = cycle_count,
                                     ![Len(@)].mispredict =
                                         isBranch /\ taken # branch_predict_taken]
                      ELSE @,
           !.pipeline_cycles = @ + cycle_count,
           !.pipeline = Shift(p),
           !.advances = @ + 1,
           !.last = [retired |-> retire,
                     wb_line |-> p[WRITEBACK].line,
                     resolved |-> isBranch,
                     branch_line |-> p[DECODE].line,
                     taken |-> taken,
                     data |-> IF ~isMem THEN "none"
                              ELSE IF t.ret = 1 THEN "hit" ELSE "miss",
                     cycle_count |-> cycle_count]]

\* a parser that pushes nop as an ordinary instruction
Kind_NopAsRtype(mn) ==
    CASE mn \in {"add", "sll", "ori", "lui", "nop"} -> "RTYPE"
      [] mn = "lw" -> "LW"
      [] mn = "sw" -> "SW"
      [] mn = "beq" -> "BRANCH"
      [] mn = "jal" -> "JAL"
      [] mn \in {"j", "jr"} -> "JUMP"
      [] mn = "syscall" -> "SYSCALL"

\* the itype the parser's strncmp chain gives a mnemonic
Kind(mn) ==
    CASE mn \in {"add", "sll", "ori", "lui"} -> "RTYPE"
      [] mn = "lw" -> "LW"
      [] mn = "sw" -> "SW"
      [] mn = "beq" -> "BRANCH"
      [] mn = "jal" -> "JAL"
      [] mn \in {"j", "jr"} -> "JUMP"
      [] mn = "syscall" -> "SYSCALL"
      [] mn = "nop" -> "NOP"

\* a handler that sets the itype and forgets the instruction address
FetchSlot_NoAddress(kind, iaddr, daddr, line) ==
    IF kind = "NOP" THEN NopSlot
    ELSE [itype |-> kind, instruction_address |-> 0,
          data_address |-> IF kind \in {"LW", "SW"} THEN daddr ELSE 0,
          line |-> line]

\* what iplc_sim_process_pipeline_<kind> leaves in FETCH after its push
FetchSlot(kind, iaddr, daddr, line) ==
    IF kind = "NOP" THEN NopSlot
    ELSE [itype |-> kind, instruction_address |-> iaddr,
          data_address |-> IF kind \in {"LW", "SW"} THEN daddr ELSE 0,
          line |-> line]

\* a branch handler that forgets branch_count++
BranchIncrement_Never(kind) == 0

\* what iplc_sim_process_pipeline_<kind> adds to branch_count
BranchIncrement(kind) == IF kind = "BRANCH" THEN 1 ELSE 0

\* ------------------------------------------------------------------- inputs
Line(iaddr, mn, daddr) == [iaddr |-> iaddr, mn |-> mn, daddr |-> daddr]

Cfg(index, blocksize, assoc, bpt) ==
    [index |-> index, blocksize |-> blocksize, assoc |-> assoc, bpt |-> bpt]

\* general inputs: two small geometries, both predictions
Configs ==
    {Cfg(1, 2, 1, b) : b \in {0, 1}} \cup {Cfg(1, 1, 2, b) : b \in {0, 1}}

Lines ==
    {Line(4, mn, 0) : mn \in {"add", "beq", "j", "jal", "syscall", "nop"}}
    \cup {Line(0, "beq", 0), Line(0, "add", 0), Line(8, "add", 0), Line(8, "nop", 0)}
    \cup {Line(4, "lw", 16), Line(8, "lw", 16), Line(8, "sw", 16), Line(0, "sw", 4)}

Traces == UNION {[1..n -> Lines] : n \in 0..MaxTrace}

\* the end-to-end scenarios: the geometry they name, and the largest
\* direct-mapped one-word geometry below the size ceiling
ScenarioConfigs == {Cfg(10, 1, 1, 0), Cfg(7, 1, 1, 0), Cfg(7, 1, 1, 1)}

ScenarioTraces ==
    { <<Line(4096, "nop", 0)>>,
      <<Line(4096, "nop", 0), Line(4100, "nop", 0)>>,
      <<Line(4096, "beq", 0), Line(4112, "nop", 0)>>,
      <<Line(4096, "lw", 8192)>>,
      <<Line(4096, "lw", 8192), Line(4100, "lw", 8192)>> }

\* two loads of one data address: a fetch that conflicts with the data line
\* between their data probes, and mispredicted branches resolved by the calls
\* of the two data probes
LoadConflictTrace == <<Line(0, "lw", 4), Line(8, "lw", 4), Line(12, "add", 0)>>

LoadBranchTrace ==
    <<Line(0, "lw", 8), Line(4, "lw", 8), Line(0, "beq", 0), Line(4, "beq", 0)>>

LoadInputs ==
    {<<Cfg(1, 1, 1, 0), LoadConflictTrace>>, <<Cfg(1, 2, 1, 1), LoadBranchTrace>>}

\* two branches fetched from one block, then a line whose fetch misses: the
\* stall of the third line finds both branches in DECODE
StallBranchTrace ==
    <<Line(0, "beq", 0), Line(4, "beq", 0), Line(8, "add", 0)>>

StallInputs == {Cfg(1, 2, 1, b) : b \in {0, 1}} \X {StallBranchTrace}

\* a last-line branch resolved by the call in which a load misses on its data
MissAndBranchTrace ==
    <<Line(0, "lw", 8), Line(4, "add", 0), Line(0, "beq", 0)>>

DrainInputs == {Cfg(1, 2, 1, b) : b \in {0, 1}} \X {MissAndBranchTrace}

\* associativities below one: atoi(argv) is not range checked
EdgeConfigs == {Cfg(1, 1, -1, 0), Cfg(1, 1, 0, 0)}

EdgeInputs == EdgeConfigs \X {<<>>, <<Line(0, "add", 0)>>}

Inputs ==
    (Configs \X Traces) \cup ((ScenarioConfigs \cup Configs) \X ScenarioTraces)
    \cup LoadInputs \cup StallInputs \cup DrainInputs \cup EdgeInputs

\* cache-only runs: one to three ways, addresses of four tags of set 0 and one of set 1
CacheConfigs == {Cfg(1, 1, k, 0) : k \in 1..3}

ProbeAddrs == {0, 8, 16, 24, 4}

\* ------------------------------------------------------------------ machine
Cur ==
    [cache |-> cache, cache_access |-> cache_access, cache_hit |-> cache_hit,
     cache_miss |-> cache_miss, pipeline |-> pipeline,
     pipeline_cycles |-> pipeline_cycles, instruction_count |-> instruction_count,
     correct_branch_predictions |-> correct_branch_predictions,
     probes |-> probes, advances |-> advances, last |-> last]

Commit(m) ==
    /\ cache' = m.cache
    /\ cache_access' = m.cache_access
    /\ cache_hit' = m.cache_hit
    /\ cache_miss' = m.cache_miss
    /\ pipeline' = m.pipeline
    /\ pipeline_cycles' = m.pipeline_cycles
    /\ instruction_count' = m.instruction_count
    /\ correct_branch_predictions' = m.correct_branch_predictions
    /\ probes' = m.probes
    /\ advances' = m.advances
    /\ last' = m.last

NoAdvance ==
    [retired |-> FALSE, wb_line |-> 0, resolved |-> FALSE, branch_line |-> 0,
     taken |-> 0, data |-> "none", cycle_count |-> 0]

\* main up to the end of iplc_sim_init, run on configuration c and trace file t
InitWith(c, t) ==
    /\ cache_index = c.index
    /\ cache_blocksize = c.blocksize
    /\ cache_assoc = c.assoc
    /\ cache_blockoffsetbits = RintLog2(c.blocksize * 4)
    /\ branch_predict_taken = c.bpt
    /\ IF TooBig(c.index, c.blocksize, c.assoc)
       THEN pc = "exit" /\ cache = <<>>
       ELSE pc = "parse" /\ cache = InitCache(c.index, c.assoc)
    /\ cache_access = 0 /\ cache_hit = 0 /\ cache_miss = 0
    /\ pipeline = InitPipeline
    /\ pipeline_cycles = 0 /\ instruction_count = 0
    /\ branch_count = 0 /\ correct_branch_predictions = 0
    /\ instruction = "" /\ instruction_address = 0 /\ data_address = 0
    /\ i = 0 /\ j = 0
    /\ trace = t /\ pos = 0
    /\ probes = <<>> /\ advances = 0 /\ last = NoAdvance /\ drained = 0
    /\ fetch_log = <<>>

Init == \E in \in Inputs : InitWith(in[1], in[2])

\* iplc_sim_parse_instruction up to the test of instruction_hit
Fetch ==
    /\ pc = "parse"
    /\ pos < Len(trace)
    /\ cache_assoc >= 1
    /\ LET ln == trace[pos + 1]
           t == TrapAddress(Cur, ln.iaddr)
       IN  /\ instruction_address' = ln.iaddr
           /\ instruction' = ln.mn
           /\ Commit(t.m)
           /\ fetch_log' = Append(fetch_log, t.ret)
           /\ IF t.ret = 0
              THEN pc' = "stall" /\ i' = pipeline_cycles /\ j' = pipeline_cycles
              ELSE pc' = "process" /\ i' = 0 /\ j' = 0
    /\ UNCHANGED <<config_vars, branch_count, data_address, trace, pos, drained>>

\* what a build may do when the probe writes through lru_tail = &lines[0] of
\* a set allocated with no lines: stop on the fault, or write past the
\* allocation and go on with a damaged heap
UndefinedOutcomes == {"fault", "heap_overrun"}

\* the probe of a cache with no ways: the scan finds no way, the capacity
\* path of iplc_sim_LRU_replace_on_miss dereferences lru_tail, which points
\* at no line (undefined behaviour; the model does not follow the program
\* past it)
FetchNoWays ==
    /\ pc = "parse"
    /\ pos < Len(trace)
    /\ cache_assoc < 1
    /\ LET ln == trace[pos + 1]
       IN  /\ instruction_address' = ln.iaddr
           /\ instruction' = ln.mn
           /\ probes' = Append(probes,
                  [address |-> ln.iaddr, index |-> TrapIndex(ln.iaddr),
                   tag |-> TrapTag(ln.iaddr), ret |-> 0, kind |-> "full",
                   src |-> 0, cycles |-> 0, mispredict |-> FALSE,
                   way |-> cache[TrapIndex(ln.iaddr)].lru_tail, evicted |-> NONE])
    /\ cache_access' = cache_access + 1
    /\ cache_miss' = cache_miss + 1
    /\ pc' \in UndefinedOutcomes
    /\ UNCHANGED <<config_vars, cache, cache_hit, pipeline, pipeline_cycles,
                   instruction_count, branch_count, correct_branch_predictions,
                   data_address, i, j, trace, pos, advances, last, drained,
                   fetch_log>>

\* a stall loop that runs CACHE_MISS_DELAY times
StallContinues_FullDelay(ii, jj) == ii < jj + CACHE_MISS_DELAY

\* the condition of the stall loop: i < j + CACHE_MISS_DELAY - 1
StallContinues(ii, jj) == ii < jj + CACHE_MISS_DELAY - 1

\* one iteration of the stall loop of a fetch miss
StallAdvance ==
    /\ pc = "stall"
    /\ StallContinues(i, j)
    /\ Commit(PushPipelineStage(Cur))
    /\ i' = i + 1
    /\ pc' = IF StallContinues(i + 1, j) THEN "stall" ELSE "process"
    /\ UNCHANGED <<config_vars, branch_count, instruction, instruction_address,
                   data_address, j, trace, pos, drained, fetch_log>>

\* the rest of iplc_sim_parse_instruction: iplc_sim_process_pipeline_<kind>
Process ==
    /\ pc = "process"
    /\ LET ln == trace[pos + 1]
           kind == Kind(instruction)
           daddr == IF kind \in {"LW", "SW"} THEN ln.daddr ELSE data_address
           m == PushPipelineStage(Cur)
       IN  /\ data_address' = daddr
           /\ Commit([m EXCEPT !.pipeline[FETCH] =
                         FetchSlot(kind, instruction_address, daddr, pos + 1)])
           /\ branch_count' = branch_count + BranchIncrement(kind)
    /\ pos' = pos + 1
    /\ pc' = "parse"
    /\ UNCHANGED <<config_vars, instruction, instruction_address, i, j, trace,
                   drained, fetch_log>>

\* fgets returns NULL: main calls iplc_sim_finalize
EndOfTrace ==
    /\ pc = "parse"
    /\ pos = Len(trace)
    /\ pc' = "finalize"
    /\ UNCHANGED <<config_vars, cache, cache_access, cache_hit, cache_miss, pipeline,
                   pipeline_cycles, instruction_count, branch_count,
                   correct_branch_predictions, instruction, instruction_address,
                   data_address, i, j, trace, pos, probes, advances, last, drained,
                   fetch_log>>

AllNop(p) == \A s \in 0..(MAX_STAGES - 1) : p[s].itype = "NOP"

\* one iteration of the loop of iplc_sim_finalize
DrainAdvance ==
    /\ pc = "finalize"
    /\ ~AllNop(pipeline)
    /\ Commit(PushPipelineStage(Cur))
    /\ drained' = drained + 1
    /\ UNCHANGED <<config_vars, branch_count, instruction, instruction_address,
                   data_address, i, j, pc, trace, pos, fetch_log>>

\* the loop of iplc_sim_finalize ends; the statistics are printed
FinalizeDone ==
    /\ pc = "finalize"
    /\ AllNop(pipeline)
    /\ pc' = "done"
    /\ UNCHANGED <<config_vars, cache, cache_access, cache_hit, cache_miss, pipeline,
                   pipeline_cycles, instruction_count, branch_count,
                   correct_branch_predictions, instruction, instruction_address,
                   data_address, i, j, trace, pos, probes, advances, last, drained,
                   fetch_log>>

Next ==
    \/ Fetch
    \/ FetchNoWays
    \/ StallAdvance
    \/ Process
    \/ EndOfTrace
    \/ DrainAdvance
    \/ FinalizeDone

Spec == Init /\ [][Next]_vars

\* ------------------------------------------------------- the cache on its own
InitProbes == \E c \in CacheConfigs : InitWith(c, <<>>)

\* one call iplc_sim_trap_address(a)
Probe(a) ==
    /\ pc = "parse"
    /\ cache_access < MaxProbes
    /\ Commit(TrapAddress(Cur, a).m)
    /\ UNCHANGED <<config_vars, branch_count, instruction, instruction_address,
                   data_address, i, j, pc, trace, pos, drained, fetch_log>>

NextProbes == \E a \in ProbeAddrs : Probe(a)

SpecCache == InitProbes /\ [][NextProbes]_vars

\* ------------------------------------------------------- reading the cache
Ways == 0..(cache_assoc - 1)

SetIds == DOMAIN cache

ValidWays(set) == {w \in Ways : set.lines[w].valid = 1}

ResidentTags(set) == {set.lines[w].tag : w \in ValidWays(set)}

\* the ways met from the LRU end following lru_next, at most n of them
RECURSIVE Walk(_, _, _)
Walk(set, w, n) ==
    IF w = NONE \/ n = 0 THEN <<>>
    ELSE <<w>> \o Walk(set, set.lines[w].lru_next, n - 1)

Chain(set) == Walk(set, set.lru_tail, cache_assoc + 1)

SeqRange(q) == {q[n] : n \in 1..Len(q)}

Take(q, n) == SubSeq(q, 1, IF n < Len(q) THEN n ELSE Len(q))

\* the tags probed in set s among the first n probes, oldest first
RECURSIVE TagsOf(_, _)
TagsOf(s, n) ==
    IF n = 0 THEN <<>>
    ELSE IF probes[n].index = s
         THEN Append(TagsOf(s, n - 1), probes[n].tag)
         ELSE TagsOf(s, n - 1)

\* the distinct tags of a probe sequence, most recently probed first
RECURSIVE Recency(_)
Recency(tags) ==
    IF tags = <<>> THEN <<>>
    ELSE LET t == tags[Len(tags)]
             rest == Recency(SubSeq(tags, 1, Len(tags) - 1))
         IN  <<t>> \o SelectSeq(rest, LAMBDA x : x # t)

\* ---------------------------------------------------------------------- C1
\* C1: probe is true LRU.  Every probe recorded so far returned hit exactly
\* when its tag was among the cache_assoc most recently probed distinct tags
\* of its set; it evicted a tag exactly when it missed with cache_assoc
\* distinct tags probed before, and then the least recently probed of the
\* cache_assoc most recent ones; and the tags resident in each set are the
\* cache_assoc most recently probed distinct tags of that set.
C1_TrueLRU ==
    pc # "exit" =>
    /\ \A n \in 1..Len(probes) :
          LET e == probes[n]
              R == Recency(TagsOf(e.index, n - 1))
          IN  /\ (e.ret = 1) = (e.tag \in SeqRange(Take(R, cache_assoc)))
              /\ (e.kind = "full") = (e.ret = 0 /\ Len(R) >= cache_assoc)
              /\ e.evicted = IF e.ret = 0 /\ Len(R) >= cache_assoc
                             THEN R[cache_assoc] ELSE NONE
    /\ \A s \in SetIds :
          ResidentTags(cache[s]) =
              SeqRange(Take(Recency(TagsOf(s, Len(probes))), cache_assoc))

\* two ways, tags A, B, A, C of one set: miss, miss, hit, miss evicting B
C1_Witness ==
    /\ cache_assoc = 2
    /\ Len(probes) = 4
    /\ [n \in 1..4 |-> probes[n].address] = <<0, 8, 0, 16>>
    /\ [n \in 1..4 |-> probes[n].ret] = <<0, 0, 1, 0>>
    /\ probes[4].evicted = 1
    /\ ResidentTags(cache[0]) = {0, 2}

\* ---------------------------------------------------------------------- C2
LinksConsistent(set) ==
    \A x \in Ways, y \in Ways :
        (set.lines[x].lru_next = y) = (set.lines[y].lru_prev = x)

ChainIsValidLines(set) ==
    /\ Len(Chain(set)) = Cardinality(SeqRange(Chain(set)))
    /\ SeqRange(Chain(set)) = ValidWays(set)
    /\ Chain(set)[Len(Chain(set))] = set.lru_head

EndsClosed(set) ==
    /\ set.lines[set.lru_head].lru_next = NONE
    /\ set.lines[set.lru_tail].lru_prev = NONE

\* C2 as stated: in every set, empty ones included, the chain from lru_tail
\* to lru_head holds exactly the valid lines, each once, prev and next agree,
\* and the two ends are closed.
C2_Original ==
    pc # "exit" =>
    \A s \in SetIds :
        ChainIsValidLines(cache[s]) /\ LinksConsistent(cache[s]) /\ EndsClosed(cache[s])

\* C2 amended: the statement holds of every set that holds a valid line; a
\* set no probe has filled yet has no valid line and still the one-line
\* chain iplc_sim_init seeds at way 0 (lru_head = lru_tail = way 0, no links).
C2_ChainWellFormed ==
    pc # "exit" =>
    \A s \in SetIds :
        /\ LinksConsistent(cache[s])
        /\ EndsClosed(cache[s])
        /\ IF ValidWays(cache[s]) # {}
           THEN ChainIsValidLines(cache[s])
           ELSE /\ Chain(cache[s]) = <<0>>
                /\ cache[s].lru_head = 0
                /\ \A w \in Ways : cache[s].lines[w] = InitLine

\* a full three-way set after an eviction and a promotion, beside an empty set
C2_Witness ==
    /\ cache_assoc = 3
    /\ ValidWays(cache[0]) = {0, 1, 2}
    /\ ValidWays(cache[1]) = {}
    /\ Chain(cache[0]) = <<2, 0, 1>>
    /\ \E n \in 1..Len(probes) : probes[n].kind = "full"
    /\ \E n \in 1..Len(probes) : probes[n].kind = "hit"

\* ---------------------------------------------------------------------- C3
Count(q, P(_)) == Cardinality({n \in 1..Len(q) : P(q[n])})

\* C3: cache_access = cache_hit + cache_miss in every state, and every probe
\* made so far added one to cache_access and one to exactly one of cache_hit
\* and cache_miss: the three statistics count the probes, the hits and the
\* misses among them.
C3_CacheCounters ==
    /\ cache_access = cache_hit + cache_miss
    /\ cache_access = Len(probes)
    /\ cache_hit = Count(probes, LAMBDA e : e.ret = 1)
    /\ cache_miss = Count(probes, LAMBDA e : e.ret = 0)

\* a finished run with fetch probes and data probes, hits and misses
C3_Witness ==
    /\ pc = "done"
    /\ cache_hit >= 1
    /\ cache_miss >= 2
    /\ cache_access > Len(trace)
    /\ drained > 0

\* ---------------------------------------------------- reading the pipeline
Stages == 0..(MAX_STAGES - 1)

IsNop(ln) == Kind(ln.mn) = "NOP"

\* the lines among the first n that push a slot the retire test counts
NumCounted(n) ==
    Cardinality({k \in 1..n : ~IsNop(trace[k]) /\ trace[k].iaddr # 0})

NumBranches(n) == Cardinality({k \in 1..n : Kind(trace[k].mn) = "BRANCH"})

InFlight(p) == Cardinality({s \in Stages : p[s].instruction_address # 0})

Advanced == advances' = advances + 1

\* ---------------------------------------------------------------------- C4
\* C4 as stated: every line of the trace, nop included, is counted once, so a
\* finished run has counted as many instructions as the trace has lines.
C4_Original == pc = "done" => instruction_count = Len(trace)

\* C4 amended: instruction_count grows by one exactly in a call of
\* iplc_sim_push_pipeline_stage that finds a nonzero instruction address in
\* WRITEBACK; the instructions counted plus the slots with a nonzero address
\* still in the pipeline are the lines pushed so far that are not nop and
\* have a nonzero address (a nop line leaves FETCH zeroed and is never
\* counted, nor is an instruction at address 0); so a finished run has counted
\* exactly those lines of the trace.
C4_RetireOnce ==
    [][ /\ instruction_count' - instruction_count =
              IF Advanced /\ pipeline[WRITEBACK].instruction_address # 0
              THEN 1 ELSE 0
        /\ instruction_count' + InFlight(pipeline') = NumCounted(pos')
        /\ pc' = "done" => instruction_count' = NumCounted(Len(trace)) ]_vars

\* a finished run of a two-line trace with one nop: one instruction counted
C4_Witness ==
    /\ pc = "done"
    /\ Len(trace) = 2
    /\ IsNop(trace[2])
    /\ trace[1].mn = "lw"
    /\ instruction_count = 1

\* ---------------------------------------------------------------------- C5
\* C5: branch_count is the number of beq lines pushed so far, and
\* correct_branch_predictions never exceeds it: counting also the branches
\* still in FETCH or DECODE, which no call has resolved yet, the sum stays
\* within branch_count; a branch a call has resolved has left DECODE for ALU,
\* so each branch is resolved by one call and adds at most one.
C5_BranchAccounting ==
    /\ branch_count = NumBranches(pos)
    /\ correct_branch_predictions <= branch_count
    /\ correct_branch_predictions
         + Cardinality({s \in {FETCH, DECODE} : pipeline[s].itype = "BRANCH"})
         <= branch_count
    /\ last.resolved => pipeline[ALU].itype = "BRANCH"

\* a finished run of two branches, one predicted correctly
C5_Witness ==
    /\ pc = "done"
    /\ branch_count = 2
    /\ correct_branch_predictions = 1

\* ---------------------------------------------------------------------- C6
\* C6: every call of iplc_sim_push_pipeline_stage moves each stage one place
\* on: WRITEBACK gets the MEM slot, MEM the ALU slot, ALU the DECODE slot,
\* DECODE the FETCH slot, and FETCH is the zeroed NOP slot, or the slot the
\* handler writes right after its call when the step is a push.
C6_Shift ==
    [][ Advanced =>
          /\ \A s \in 1..(MAX_STAGES - 1) : pipeline'[s] = pipeline[s - 1]
          /\ pipeline'[FETCH] =
                IF pc = "process"
                THEN FetchSlot(Kind(trace[pos + 1].mn), trace[pos + 1].iaddr,
                               trace[pos + 1].daddr, pos + 1)
                ELSE NopSlot ]_vars

\* after a call: two different instructions side by side behind a bubble
C6_Witness ==
    /\ advances > 0
    /\ pipeline[FETCH] = NopSlot
    /\ pipeline[ALU].itype = "JAL"
    /\ pipeline[MEM].itype = "SW"
    /\ pipeline[WRITEBACK] = NopSlot

\* ---------------------------------------------------------------------- C7
\* C7: the loop of iplc_sim_finalize runs at most MAX_STAGES times, with all
\* stages NOP after the MAX_STAGES-th call and when it ends; it runs exactly
\* MAX_STAGES times when the last line of the trace pushed a slot whose kind
\* is not NOP.
C7_Drain ==
    /\ drained <= MAX_STAGES
    /\ (pc = "finalize" /\ drained = MAX_STAGES) => AllNop(pipeline)
    /\ pc = "done" =>
          /\ AllNop(pipeline)
          /\ (Len(trace) > 0 /\ ~IsNop(trace[Len(trace)])) => drained = MAX_STAGES

\* a finished run whose last line is an instruction: five calls in the drain
C7_Witness ==
    /\ pc = "done"
    /\ Len(trace) = 2
    /\ trace[2].mn = "beq"
    /\ drained = MAX_STAGES

\* ---------------------------------------------------------------------- C8
NopTrace == <<Line(4096, "nop", 0)>>

Ended == pc \in {"done", "exit"}

\* C8 as stated: with I=10, blocksize=1, assoc=1, branch_predict_taken=0 the
\* run of the trace `0x1000 nop` ends with one access, one miss, no hit, one
\* instruction and CACHE_MISS_DELAY + 5 cycles.
C8_Original ==
    ( /\ cache_index = 10 /\ cache_blocksize = 1 /\ cache_assoc = 1
      /\ branch_predict_taken = 0
      /\ trace = NopTrace
      /\ Ended )
    => /\ cache_access = 1 /\ cache_miss = 1 /\ cache_hit = 0
       /\ instruction_count = 1
       /\ pipeline_cycles = CACHE_MISS_DELAY + 5

\* C8 amended: iplc_sim_init rejects I=10, blocksize=1, assoc=1 (no probe is
\* made).  On a geometry it accepts, the run of `0x1000 nop` ends with one
\* access, one miss, no hit, no instruction counted and CACHE_MISS_DELAY
\* cycles: nine stall calls and the call of the push, and no call in the
\* drain, since the nop leaves every stage NOP.
C8_NopTrace ==
    /\ (cache_index = 10 /\ cache_blocksize = 1 /\ cache_assoc = 1) =>
          pc = "exit" /\ cache_access = 0 /\ pipeline_cycles = 0
    /\ (trace = NopTrace /\ pc = "done") =>
          /\ cache_access = 1 /\ cache_miss = 1 /\ cache_hit = 0
          /\ instruction_count = 0
          /\ advances = CACHE_MISS_DELAY
          /\ drained = 0
          /\ pipeline_cycles = CACHE_MISS_DELAY

\* the run of `0x1000 nop` finished on I=7, blocksize=1, assoc=1
C8_Witness ==
    /\ cache_index = 7 /\ cache_blocksize = 1 /\ cache_assoc = 1
    /\ branch_predict_taken = 0
    /\ trace = NopTrace
    /\ pc = "done"
    /\ pipeline_cycles = 10

\* ---------------------------------------------------------------------- C9
\* index = (address >> B) & (2^I - 1) and tag = address >> (I + B)
FormulaIndex(address) == (address \div 2^cache_blockoffsetbits) % 2^cache_index

FormulaTag(address) == address \div 2^(cache_index + cache_blockoffsetbits)

TwoNops == <<Line(4096, "nop", 0), Line(4100, "nop", 0)>>

\* C9 as stated: with I=10 and blocksize=1 the addresses 0x1000 and 0x1004
\* have the same index and the same tag, and fetching one after the other on
\* a cold cache gives a miss and a hit.
C9_Original ==
    (cache_index = 10 /\ cache_blocksize = 1) =>
        /\ TrapIndex(4096) = TrapIndex(4100)
        /\ TrapTag(4096) = TrapTag(4100)
        /\ (trace = TwoNops /\ Ended) => (cache_hit = 1 /\ cache_miss = 1)

\* C9 amended: iplc_sim_trap_address computes index = (address >> B) &
\* (2^I - 1) and tag = address >> (I + B); with blocksize=1 (B=2) and I >= 1
\* the addresses 0x1000 and 0x1004 have the same tag and different indices
\* (with I=10: tag 1, indices 0 and 1), so fetching one after the other on a
\* cold cache of such a geometry gives two misses; in general the second
\* probe of a cold cache hits exactly when index and tag both equal the
\* first's.
C9_IndexTag ==
    /\ \A n \in 1..Len(probes) :
          /\ probes[n].index = FormulaIndex(probes[n].address)
          /\ probes[n].tag = FormulaTag(probes[n].address)
    /\ (cache_blocksize = 1 /\ cache_index >= 1) =>
          /\ cache_blockoffsetbits = 2
          /\ TrapIndex(4096) # TrapIndex(4100)
          /\ TrapTag(4096) = TrapTag(4100)
          /\ (trace = TwoNops /\ pc = "done") => (cache_hit = 0 /\ cache_miss = 2)
    /\ (cache_index = 10 /\ cache_blocksize = 1) =>
          /\ TrapIndex(4096) = 0 /\ TrapIndex(4100) = 1
          /\ TrapTag(4096) = 1 /\ TrapTag(4100) = 1
    /\ Len(probes) >= 2 =>
          (probes[2].ret = 1) =
              (probes[1].index = probes[2].index /\ probes[1].tag = probes[2].tag)

\* 0x1000 then 0x1004 fetched on I=7, blocksize=1, assoc=1: two misses
C9_Witness ==
    /\ cache_index = 7 /\ cache_blocksize = 1
    /\ trace = TwoNops
    /\ pc = "done"
    /\ cache_miss = 2 /\ cache_hit = 0

\* --------------------------------------------------------------------- C10
IsBranch(k) == Kind(trace[k].mn) = "BRANCH"

NotSequential(k) == k < Len(trace) /\ trace[k + 1].iaddr # trace[k].iaddr + 4

\* the branch of line k is resolved as taken: the next line is fetched with
\* a hit, is not a nop, and is not at the branch's address + 4
TakenExpected(k) ==
    /\ NotSequential(k)
    /\ ~IsNop(trace[k + 1])
    /\ Len(fetch_log) > k
    /\ fetch_log[k + 1] = 1

BranchTrace == <<Line(4096, "beq", 0), Line(4112, "nop", 0)>>

\* C10 as stated: a branch followed by a line that is not at its address + 4
\* is resolved as taken, so with branch_predict_taken = 0 it is never a
\* correct prediction and the call that resolves it costs an extra cycle.
C10_Original ==
    /\ (last.resolved /\ NotSequential(last.branch_line)) =>
          /\ last.taken = 1
          /\ branch_predict_taken = 0 => last.cycle_count > 1
    /\ (pc = "done" /\ branch_predict_taken = 0
          /\ \A k \in 1..Len(trace) : IsBranch(k) => NotSequential(k))
       => correct_branch_predictions = 0

\* C10 amended: a branch at address a is resolved as taken exactly when the
\* call that finds it in DECODE finds in FETCH a slot that is not NOP with an
\* address other than a+4, that is when the next line of the trace is not at
\* a+4, is not a nop and hit the cache on its fetch; only then, with
\* branch_predict_taken = 0, it is not a correct prediction and the call
\* costs 2 cycles (CACHE_MISS_DELAY when the call's data probe misses).  A
\* branch followed by a nop, or by a line whose fetch misses, is resolved as
\* not taken: `0x1000 beq`, `0x1010 nop` with branch_predict_taken = 0 ends
\* with correct_branch_predictions = 1.
C10_BranchResolution ==
    /\ last.resolved =>
          /\ IsBranch(last.branch_line)
          /\ (last.taken = 1) = TakenExpected(last.branch_line)
          /\ last.cycle_count =
                IF last.data = "miss" THEN CACHE_MISS_DELAY
                ELSE IF last.taken # branch_predict_taken THEN 2 ELSE 1
    /\ pc = "done" =>
          correct_branch_predictions =
              Cardinality({k \in 1..Len(trace) :
                  IsBranch(k) /\ (TakenExpected(k) = (branch_predict_taken = 1))})
    /\ (pc = "done" /\ trace = BranchTrace /\ branch_predict_taken = 0) =>
          correct_branch_predictions = 1

\* a taken branch mispredicted by branch_predict_taken = 0: two cycles
C10_Witness ==
    /\ last.resolved
    /\ last.taken = 1
    /\ branch_predict_taken = 0
    /\ last.cycle_count = 2
    /\ NotSequential(last.branch_line)

\* --------------------------------------------------------------------- C11
\* probes a < b are the data probes of two consecutive lw lines with one
\* data address
LoadPair(a, b) ==
    /\ a < b
    /\ probes[a].src > 0
    /\ probes[b].src = probes[a].src + 1
    /\ trace[probes[a].src].mn = "lw"
    /\ trace[probes[b].src].mn = "lw"
    /\ trace[probes[a].src].daddr = trace[probes[b].src].daddr

SameSet(a, b) == probes[a].index = probes[b].index

\* the line of probe a is not in the cache when the probe is made (one way)
NotCachedBefore(a) ==
    \A c \in 1..(a - 1) :
        (SameSet(c, a) /\ probes[c].tag = probes[a].tag) =>
            \E d \in (c + 1)..(a - 1) : SameSet(d, a) /\ probes[d].tag # probes[a].tag

\* a probe between a and b maps to their set with another tag
ConflictBetween(a, b) ==
    \E c \in (a + 1)..(b - 1) : SameSet(c, a) /\ probes[c].tag # probes[a].tag

LoadPairs ==
    {ab \in (1..Len(probes)) \X (1..Len(probes)) : LoadPair(ab[1], ab[2])}

\* C11 as stated: with one way, the first data probe of such a pair misses
\* when its line is not cached beforehand and the second hits whatever is
\* probed in between; their calls cost CACHE_MISS_DELAY and 1.
C11_Original ==
    cache_assoc = 1 =>
    \A ab \in LoadPairs :
        NotCachedBefore(ab[1]) =>
            /\ probes[ab[1]].ret = 0 /\ probes[ab[1]].cycles = CACHE_MISS_DELAY
            /\ probes[ab[2]].ret = 1 /\ probes[ab[2]].cycles = 1

\* C11 amended: with one way, the first data probe misses when its line is
\* not cached beforehand and its call costs CACHE_MISS_DELAY; the second
\* hits exactly when no probe between the two (an instruction fetch, the
\* cache being shared) maps to the same set with another tag; its call then
\* costs 1, or 2 when it also resolves a mispredicted branch, and
\* CACHE_MISS_DELAY when the second probe misses.
C11_TwoLoads ==
    cache_assoc = 1 =>
    \A ab \in LoadPairs :
        LET a == ab[1]
            b == ab[2]
        IN  /\ NotCachedBefore(a) =>
                  (probes[a].ret = 0 /\ probes[a].cycles = CACHE_MISS_DELAY)
            /\ (probes[b].ret = 1) = ~ConflictBetween(a, b)
            /\ probes[b].cycles =
                  IF probes[b].ret = 0 THEN CACHE_MISS_DELAY
                  ELSE IF probes[b].mispredict THEN 2 ELSE 1

\* scenario 6 on I=7, blocksize=1, assoc=1: miss then hit, 10 and 1 cycles
C11_Witness ==
    /\ cache_index = 7 /\ cache_assoc = 1
    /\ pc = "done"
    /\ \E ab \in LoadPairs :
          /\ NotCachedBefore(ab[1])
          /\ probes[ab[1]].ret = 0 /\ probes[ab[1]].cycles = CACHE_MISS_DELAY
          /\ probes[ab[2]].ret = 1 /\ probes[ab[2]].cycles = 1

\* --------------------------------------------------------------------- C12
\* the tags probed in set s so far, oldest first
ProbedTags(s) == TagsOf(s, Len(probes))

\* the probe entries of set s so far, oldest first
ProbesOf(s) == SelectSeq(probes, LAMBDA e : e.index = s)

\* set s has so far been probed with distinct tags only, at most cache_assoc
ColdFilling(s) ==
    /\ ProbedTags(s) # <<>>
    /\ Len(ProbedTags(s)) <= cache_assoc
    /\ Cardinality(SeqRange(ProbedTags(s))) = Len(ProbedTags(s))

\* C12: cold fill.  While a set has been probed with n <= cache_assoc
\* distinct tags and nothing else, the i-th tag sits in way i - 1 (ways in
\* index order), the ways from n on are still invalid, the tag probed last is
\* at the MRU end, the first tag is at the LRU end with the chain running
\* through the ways in fill order, and every one of these probes was a miss
\* that took an invalid way and evicted nothing.
C12_ColdFill ==
    \A s \in SetIds :
        ColdFilling(s) =>
            LET tags == ProbedTags(s)
                n    == Len(tags)
                set  == cache[s]
            IN  /\ \A k \in 1..n :
                      /\ set.lines[k - 1].valid = 1
                      /\ set.lines[k - 1].tag = tags[k]
                      /\ ProbesOf(s)[k].ret = 0
                      /\ ProbesOf(s)[k].kind = "cold"
                      /\ ProbesOf(s)[k].way = k - 1
                      /\ ProbesOf(s)[k].evicted = NONE
                /\ \A w \in Ways : w >= n => set.lines[w].valid = 0
                /\ set.lru_head = n - 1
                /\ set.lru_tail = 0
                /\ Chain(set) = [k \in 1..n |-> k - 1]

\* three ways of set 0 filled by three distinct tags
C12_Witness ==
    /\ cache_assoc = 3
    /\ ColdFilling(0)
    /\ Len(ProbedTags(0)) = 3
    /\ cache[0].lru_head = 2
    /\ cache[0].lru_tail = 0
    /\ cache[0].lines[0].tag = ProbedTags(0)[1]
    /\ cache_miss = Len(probes)

\* --------------------------------------------------------------------- C13
\* the step is one probe; its log entry is the last of probes'
Probed == Len(probes') = Len(probes) + 1

\* the tag of entry e is resident at the MRU end of its set
IsMRU(e) ==
    LET set == cache[e.index]
    IN  /\ set.lines[set.lru_head].valid = 1
        /\ set.lines[set.lru_head].tag = e.tag

\* the probe before this step was a hit on the tag of entry e
JustHit(e) ==
    /\ probes # <<>>
    /\ probes[Len(probes)].ret = 1
    /\ probes[Len(probes)].index = e.index
    /\ probes[Len(probes)].tag = e.tag

\* C13: promotion is idempotent.  A probe that directly follows a hit on the
\* same tag is a hit and leaves every set (valid bits, tags, links, MRU and
\* LRU pointers) as the first hit left it; and a hit on the line at the MRU
\* end changes nothing in the cache.
C13_HitIdempotent ==
    [][Probed =>
          LET e == probes'[Len(probes')]
          IN  /\ JustHit(e) => (e.ret = 1 /\ cache' = cache)
              /\ IsMRU(e) => (e.ret = 1 /\ cache' = cache)]_vars

\* tag 0 is promoted from the LRU end by a first hit and probed again
C13_Witness ==
    /\ cache_assoc = 2
    /\ Len(probes) = 4
    /\ [n \in 1..4 |-> probes[n].address] = <<0, 8, 0, 0>>
    /\ [n \in 1..4 |-> probes[n].ret] = <<0, 0, 1, 1>>
    /\ cache[0].lru_head = 0
    /\ cache[0].lru_tail = 1

\* --------------------------------------------------------------------- C14
\* the size metric of the configuration, B being log2 of the block's bytes
SizeMetric ==
    cache_assoc * 2^cache_index
        * (32 * cache_blocksize + 33 - cache_index - cache_blockoffsetbits)

Rejected == pc = "exit"

ScenarioGeometry == cache_index = 10 /\ cache_blocksize = 1 /\ cache_assoc = 1

\* C14 as stated: I=10, blocksize=1, assoc=1 passes the size check, and init
\* rejects exactly the configurations whose metric exceeds MAX_CACHE_SIZE.
C14_Original ==
    /\ ScenarioGeometry => ~Rejected
    /\ Rejected = (SizeMetric > MAX_CACHE_SIZE)

\* C14 amended: I=10, blocksize=1, assoc=1 has metric 1024 * 53 = 54272 and
\* is rejected; a one-word direct-mapped cache is accepted up to I=7 (metric
\* 128 * 56 = 7168).  Init rejects exactly when the metric, taken as an
\* unsigned value, exceeds MAX_CACHE_SIZE: when it is above MAX_CACHE_SIZE or
\* negative (assoc < 0).  A rejected run never probes or advances.
C14_SizeCheck ==
    /\ 2^cache_blockoffsetbits = 4 * cache_blocksize
    /\ ScenarioGeometry => (SizeMetric = 54272 /\ Rejected)
    /\ (cache_index = 7 /\ cache_blocksize = 1 /\ cache_assoc = 1) =>
           (SizeMetric = 7168 /\ ~Rejected)
    /\ Rejected = (SizeMetric > MAX_CACHE_SIZE \/ SizeMetric < 0)
    /\ Rejected => (probes = <<>> /\ advances = 0 /\ cache = <<>>)

\* init has rejected the scenarios' geometry
C14_Witness == ScenarioGeometry /\ Rejected /\ SizeMetric > MAX_CACHE_SIZE

\* --------------------------------------------------------------------- C15
\* the data probe of this step missed
DataMissed ==
    /\ pipeline[MEM].itype \in {"LW", "SW"}
    /\ Len(probes') = Len(probes) + 1
    /\ probes'[Len(probes')].address = pipeline[MEM].data_address
    /\ probes'[Len(probes')].ret = 0

\* this step finds in DECODE a branch whose outcome is not the prediction
Mispredicted ==
    /\ pipeline[DECODE].itype = "BRANCH"
    /\ BranchTaken(pipeline) # branch_predict_taken

\* C15: every advance adds to pipeline_cycles exactly CACHE_MISS_DELAY when
\* MEM holds LW or SW and its data probe misses, a mispredict resolved in the
\* same advance adding nothing; otherwise 2 when DECODE holds a mispredicted
\* BRANCH; otherwise 1.  No other step changes pipeline_cycles, so it never
\* decreases and grows by at least 1 per advance.
C15_CycleCost ==
    [][/\ Advanced =>
             pipeline_cycles' - pipeline_cycles =
                 IF DataMissed THEN CACHE_MISS_DELAY
                 ELSE IF Mispredicted THEN 2 ELSE 1
       /\ ~Advanced => pipeline_cycles' = pipeline_cycles
       /\ pipeline_cycles' >= pipeline_cycles]_vars

\* an advance with a data miss and a mispredict at once has cost 10
C15_Witness ==
    /\ last.data = "miss"
    /\ last.resolved
    /\ last.taken # branch_predict_taken
    /\ last.cycle_count = CACHE_MISS_DELAY
    /\ pipeline_cycles >= CACHE_MISS_DELAY

\* --------------------------------------------------------------------- C16
\* the step is the k-th iteration of the stall loop
StallStep(k) == pc = "stall" /\ Advanced /\ i - j + 1 = k

\* the step is the push of a line whose fetch missed
PushAfterMiss == pc = "process" /\ Advanced /\ fetch_log[pos + 1] = 0

\* the log position of the latest instruction-fetch probe
LastFetchProbe ==
    CHOOSE n \in 1..Len(probes) :
        probes[n].src = 0 /\ \A m \in (n + 1)..Len(probes) : probes[m].src # 0

\* no data probe has missed since the latest fetch probe, this step included
NoDataMissSinceFetch ==
    \A n \in (LastFetchProbe + 1)..Len(probes') : probes'[n].ret = 1

\* line k of the trace is a branch that an advance resolves against line k + 1
\* in FETCH with an outcome that is not the prediction
MispredictsAgainstNext(k) ==
    /\ trace[k].mn = "beq"
    /\ (IF trace[k + 1].iaddr # trace[k].iaddr + 4 /\ ~IsNop(trace[k + 1])
        THEN 1 ELSE 0) # branch_predict_taken

\* the surcharges of the stall that precedes the push of line pos + 1: the
\* first stall advance resolves line pos - 1 against line pos when line pos
\* was fetched with a hit, the second resolves line pos against a bubble
StallSurcharge ==
    (IF pos >= 2 /\ fetch_log[pos] = 1 /\ MispredictsAgainstNext(pos - 1)
     THEN 1 ELSE 0)
    + (IF pos >= 1 /\ trace[pos].mn = "beq" /\ branch_predict_taken = 1
       THEN 1 ELSE 0)

FetchProbeAddrs ==
    LET f == SelectSeq(probes, LAMBDA e : e.src = 0)
    IN  [n \in 1..Len(f) |-> f[n].address]

\* how many of the first n fetch probes missed
RECURSIVE FetchMisses(_)
FetchMisses(n) ==
    IF n = 0 THEN 0 ELSE FetchMisses(n - 1) + (1 - fetch_log[n])

InFrontEnd == pc \in {"parse", "stall", "process"}

Pushes == pc = "process" /\ pos' = pos + 1

PushedKind == Kind(trace[pos + 1].mn)

\* what one advance does to the stages behind FETCH and to the counters
OnlyAdvanced ==
    LET m == PushPipelineStage(Cur)
    IN  /\ advances' = advances + 1
        /\ \A s \in DECODE..WRITEBACK : pipeline'[s] = pipeline[s - 1]
        /\ pipeline_cycles' = m.pipeline_cycles
        /\ instruction_count' = m.instruction_count
        /\ correct_branch_predictions' = m.correct_branch_predictions
        /\ cache' = m.cache
        /\ <<cache_access', cache_hit', cache_miss'>> =
               <<m.cache_access, m.cache_hit, m.cache_miss>>

\* C18 as stated: push(d) makes one advance and leaves d's kind and d's
\* instruction address in FETCH for every kind, NOP included; branch_count
\* grows by one exactly for a BRANCH and nothing else is changed by the write.
C18_Original ==
    [][Pushes =>
          /\ OnlyAdvanced
          /\ pipeline'[FETCH].itype = PushedKind
          /\ pipeline'[FETCH].instruction_address = trace[pos + 1].iaddr
          /\ branch_count' =
                 branch_count + (IF PushedKind = "BRANCH" THEN 1 ELSE 0)]_vars

\* C18 amended: push(d) makes one advance and leaves d's kind in FETCH; for
\* every kind but NOP, FETCH also holds d's instruction address; the push of
\* a NOP writes nothing, so FETCH keeps the zeroed slot of the advance (kind
\* NOP, instruction address 0).  branch_count grows by one exactly for a
\* BRANCH and no other stage or counter is changed by the write.
C18_Push ==
    [][Pushes =>
          /\ OnlyAdvanced
          /\ pipeline'[FETCH].itype = PushedKind
          /\ pipeline'[FETCH].instruction_address =
                 IF PushedKind = "NOP" THEN 0 ELSE trace[pos + 1].iaddr
          /\ PushedKind \in {"LW", "SW"} =>
                 pipeline'[FETCH].data_address = trace[pos + 1].daddr
          /\ branch_count' =
                 branch_count + (IF PushedKind = "BRANCH" THEN 1 ELSE 0)]_vars

\* a branch and then a nop at a nonzero address have been pushed
C18_Witness ==
    /\ pc = "parse"
    /\ pos = 2
    /\ trace[1].mn = "beq"
    /\ trace[2].mn = "nop" /\ trace[2].iaddr # 0
    /\ pipeline[FETCH] = NopSlot
    /\ pipeline[DECODE].itype = "BRANCH"
    /\ pipeline[DECODE].instruction_address = trace[1].iaddr
    /\ branch_count = 1

\* --------------------------------------------------------------------- C19
Accepted == pc # "exit"

\* every probe so far chose a set of the cache and a way of that set
ProbesInRange ==
    \A n \in 1..Len(probes) :
        /\ probes[n].index \in 0..(2^cache_index - 1)
        /\ probes[n].way \in Ways

\* C19 as stated: the cache cannot fail at runtime.  Init accepts no
\* configuration with assoc < 1, and under an accepted configuration every
\* probe, the capacity-miss path included, touches only ways in [0, assoc)
\* of sets in [0, 2^I), so no probe has undefined behaviour.
C19_Original ==
    /\ Accepted => cache_assoc >= 1
    /\ Accepted => ProbesInRange
    /\ pc \notin UndefinedOutcomes

\* --------------------------------------------------------------------- C20
\* the step is the advance that finds the branch of line k in DECODE
ResolvesLine(k) ==
    /\ Advanced
    /\ pipeline[DECODE].itype = "BRANCH"
    /\ pipeline[DECODE].line = k

\* line k is the last line, or the line after it is a nop or missed on fetch
BubbleFollows(k) ==
    \/ k = Len(trace)
    \/ IsNop(trace[k + 1])
    \/ (Len(fetch_log) > k /\ fetch_log[k + 1] = 0)

\* FETCH holds a NOP slot and the branch is resolved not taken: counted as
\* correct exactly when the prediction is not taken
ResolvedNotTaken ==
    /\ pipeline[FETCH].itype = "NOP"
    /\ last'.resolved /\ last'.taken = 0
    /\ correct_branch_predictions' =
           correct_branch_predictions + (IF branch_predict_taken = 0 THEN 1 ELSE 0)

\* C20 as stated: a branch followed by a fetch miss or a nop, or ending the
\* trace, is resolved not taken against a NOP in FETCH, counted as correct
\* exactly when branch_predict_taken = 0, and with branch_predict_taken = 1
\* the resolving advance costs 2 cycles.
C20_Original ==
    [][\A k \in 1..Len(trace) :
          (ResolvesLine(k) /\ BubbleFollows(k)) =>
              /\ ResolvedNotTaken
              /\ branch_predict_taken = 1 =>
                     pipeline_cycles' - pipeline_cycles = 2]_vars

\* C20 amended: such a branch is resolved not taken against a NOP in FETCH
\* and counted as correct exactly when branch_predict_taken = 0; with
\* branch_predict_taken = 1 the resolving advance costs 2 cycles, unless the
\* data probe of an LW or SW in MEM misses in that advance, which then costs
\* CACHE_MISS_DELAY; with branch_predict_taken = 0 it costs 1, or
\* CACHE_MISS_DELAY on such a data miss.
C20_BubbleResolution ==
    [][\A k \in 1..Len(trace) :
          (ResolvesLine(k) /\ BubbleFollows(k)) =>
              /\ ResolvedNotTaken
              /\ pipeline_cycles' - pipeline_cycles =
                     IF DataMissed THEN CACHE_MISS_DELAY
                     ELSE 1 + branch_predict_taken]_vars

\* a branch whose successor is both far away and missed on fetch has been
\* resolved not taken at 2 cycles under prediction taken
C20_Witness ==
    /\ last.resolved
    /\ last.branch_line < Len(trace)
    /\ NotSequential(last.branch_line)
    /\ ~IsNop(trace[last.branch_line + 1])
    /\ Len(fetch_log) > last.branch_line
    /\ fetch_log[last.branch_line + 1] = 0
    /\ last.taken = 0
    /\ branch_predict_taken = 1
    /\ correct_branch_predictions = 0
    /\ last.cycle_count = 2

\* --------------------------------------------------------------------- C21
\* the valid ways of every set of cache c are the ways below some n <= assoc
ValidPrefix(c) ==
    \A s \in DOMAIN c :
        \E n \in 0..cache_assoc :
            {w \in Ways : c[s].lines[w].valid = 1} = 0..(n - 1)

\* no line that is valid is invalid after the step
StaysValid ==
    \A s \in SetIds : \A w \in Ways :
        cache[s].lines[w].valid = 1 => cache'[s].lines[w].valid = 1

\* C21: in every state the valid ways of every set are a prefix [0, n) of
\* its ways, no step makes a valid line invalid, and a probe takes the
\* capacity path (evicting the LRU end) only when all ways of its set are
\* valid; a miss on a set that is not full fills way n and evicts nothing.
\* So the scan that stops at the first invalid way misses exactly when the
\* tag is in no valid line of the set.
C21_ValidPrefix ==
    [][/\ ValidPrefix(cache) /\ ValidPrefix(cache')
       /\ StaysValid
       /\ Probed =>
             LET e   == probes'[Len(probes')]
                 set == cache[e.index]
             IN  /\ e.kind = "full" => ValidWays(set) = Ways
                 /\ (e.evicted # NONE) = (e.kind = "full")
                 /\ e.kind = "cold" =>
                        /\ ValidWays(set) = 0..(e.way - 1)
                        /\ ValidWays(cache'[e.index]) = 0..e.way
                 /\ (e.ret = 0) = (e.tag \notin ResidentTags(set))]_vars

\* set 0 has filled its three ways and then evicted, set 1 holds one line
C21_Witness ==
    /\ cache_assoc = 3
    /\ \E n \in 1..Len(probes) : probes[n].index = 0 /\ probes[n].kind = "full"
    /\ ValidWays(cache[0]) = Ways
    /\ ValidWays(cache[1]) = {0}

\* --------------------------------------------------------------------- C22
\* no two valid lines of one set of cache c hold the same tag
NoDuplicateTags(c) ==
    \A s \in DOMAIN c : \A x \in Ways, y \in Ways :
        (/\ x # y
         /\ c[s].lines[x].valid = 1
         /\ c[s].lines[y].valid = 1) => c[s].lines[x].tag # c[s].lines[y].tag

\* C22: in every state no two valid lines of a set hold the same tag, and a
\* probe changes only the set chosen by the index bits of its address: every
\* other set keeps its valid bits, tags, links and MRU and LRU pointers.
C22_OneSetTouched ==
    [][/\ NoDuplicateTags(cache) /\ NoDuplicateTags(cache')
       /\ Probed =>
             LET e == probes'[Len(probes')]
             IN  /\ e.index = FormulaIndex(e.address)
                 /\ \A s \in SetIds : s # FormulaIndex(e.address) =>
                        cache'[s] = cache[s]
                 /\ cache'[e.index] # cache[e.index] \/ IsMRU(e)]_vars

\* set 0 holds two tags, one of them probed twice, and the last probe went
\* to set 1
C22_Witness ==
    /\ cache_assoc = 2
    /\ [n \in 1..Len(probes) |-> probes[n].address] = <<0, 8, 0, 4>>
    /\ ValidWays(cache[0]) = {0, 1}
    /\ ResidentTags(cache[0]) = {0, 1}
    /\ cache[0].lru_head = 0
    /\ ValidWays(cache[1]) = {0}

=============================================================================
